---- MODULE Spec2Model ----
(***************************************************************************)
(* query_task of esgpt_task_querying/main.py as a state machine: one       *)
(* action per stage of the function, in program order.  Tables are records *)
(* [columns, ts_dtype, rows]; a row is a function from column name to cell. *)
(* The collaborators load_config, generate_predicate_columns,              *)
(* build_tree_from_config and query_subtree live in other modules of the   *)
(* package; what they return is part of the environment chosen in Init.    *)
(***************************************************************************)
EXTENDS Integers, Sequences, FiniteSets, TLC

\* ---------------------------------------------------------------- bounds
MaxRows == 2
NumSubjects == 2
MaxTime == 2
MaxIncludes == 2

Subjects == 1..NumSubjects
Times == 1..MaxTime
EventTypes == 0..3
Preds == <<"a", "b">>
PredSet == {Preds[k] : k \in 1..Len(Preds)}
RootName == "trigger"
NonRootNames == {"w1", "w2"}

Range(s) == {s[k] : k \in 1..Len(s)}

\* ------------------------------------------------------- column names
PredicateColumn(p) == "is_" \o p
TimestampColumn(n) == n \o "/timestamp"
SummaryColumn(n) == n \o "/window_summary"

\* col.startswith("is_")
StartsWithIs(c) == c \in {PredicateColumn(p) : p \in PredSet}

\* ------------------------------------------------------- timestamps
\* A text cell is coded by a number: Format(t) is the text of time t in the
\* format "%m/%d/%Y %H:%M"; a code that is no multiple of 10 is a text that
\* does not match the format.
Format(t) == 10 * t
Malformed(t) == 10 * t + 1
Parses(s) == s % 10 = 0
Strptime(s) == s \div 10

\* ------------------------------------------------------- table helpers
RECURSIVE FilterFrom(_, _, _)
FilterFrom(rows, mask, k) ==
    IF k > Len(rows) THEN <<>>
    ELSE (IF mask[k] THEN <<rows[k]>> ELSE <<>>) \o FilterFrom(rows, mask, k + 1)

Not(mask) == [k \in 1..Len(mask) |-> ~mask[k]]

\* DataFrame.filter(mask) with a boolean Series: a mask of length 1 is
\* broadcast, any other mask must be as long as the frame.
FilterShapeOk(rows, mask) == Len(mask) = 1 \/ Len(mask) = Len(rows)

FilterRows(rows, mask) ==
    IF Len(mask) = 1
    THEN (IF mask[1] THEN rows ELSE <<>>)
    ELSE FilterFrom(rows, mask, 1)

RowLess(r, s) ==
    \/ r["subject_id"] < s["subject_id"]
    \/ /\ r["subject_id"] = s["subject_id"]
       /\ \/ r["timestamp"] < s["timestamp"]
          \/ /\ r["timestamp"] = s["timestamp"]
             /\ r["event_type"] < s["event_type"]

RECURSIVE Insert(_, _)
Insert(r, sorted) ==
    IF sorted = <<>> THEN <<r>>
    ELSE IF RowLess(r, Head(sorted)) THEN <<r>> \o sorted
    ELSE <<Head(sorted)>> \o Insert(r, Tail(sorted))

RECURSIVE SortRows(_)
SortRows(rows) ==
    IF rows = <<>> THEN <<>>
    ELSE Insert(rows[Len(rows)], SortRows(SubSeq(rows, 1, Len(rows) - 1)))

\* ------------------------------------------------------- inputs
\* The schema of an event source: its columns, the dtype of its timestamp
\* column and whether its first text timestamp is malformed.
FullColumns == <<"subject_id", "timestamp", "event_type">>

GoodSchemas ==
    {[columns |-> FullColumns, ts_dtype |-> "datetime", malformed |-> FALSE]}

OddSchemas ==
    {[columns |-> FullColumns, ts_dtype |-> "str", malformed |-> FALSE],
     [columns |-> FullColumns, ts_dtype |-> "str", malformed |-> TRUE],
     [columns |-> FullColumns, ts_dtype |-> "int", malformed |-> FALSE],
     [columns |-> <<"subject_id", "event_type">>, ts_dtype |-> "none", malformed |-> FALSE],
     [columns |-> <<"timestamp", "event_type">>, ts_dtype |-> "datetime", malformed |-> FALSE],
     [columns |-> <<"timestamp", "event_type">>, ts_dtype |-> "str", malformed |-> FALSE],
     [columns |-> <<"event_type">>, ts_dtype |-> "none", malformed |-> FALSE]}

Events == Subjects \X Times \X EventTypes
EventSeqs(n) == UNION {[1..k -> Events] : k \in 0..n}

EventLeq(e, f) ==
    \/ e[1] < f[1]
    \/ e[1] = f[1] /\ e[2] < f[2]
    \/ e[1] = f[1] /\ e[2] = f[2] /\ e[3] <= f[3]
SortedEventSeqs(n) ==
    {es \in EventSeqs(n) : \A k \in 1..Len(es) - 1 : EventLeq(es[k], es[k + 1])}
PathEvents == Subjects \X Times \X {1, 3}

Cell(schema, t, k) ==
    IF schema.ts_dtype = "str"
    THEN (IF schema.malformed /\ k = 1 THEN Malformed(t) ELSE Format(t))
    ELSE t

Frame(schema, es) ==
    [columns |-> schema.columns,
     ts_dtype |-> schema.ts_dtype,
     rows |-> [k \in 1..Len(es) |->
                 [c \in Range(schema.columns) |->
                     CASE c = "subject_id" -> es[k][1]
                       [] c = "timestamp" -> Cell(schema, es[k][2], k)
                       [] OTHER -> es[k][3]]]]

EmptyTable == [columns |-> <<>>, ts_dtype |-> "none", rows |-> <<>>]

\* The configuration: the trigger (a start predicate, or a list of include
\* conditions), the windows in configuration order with their label entry,
\* and the order of the non-root windows in the tree.
NoLabel == [has_label |-> FALSE, label |-> ""]
LabelEntries ==
    {NoLabel} \cup {[has_label |-> TRUE, label |-> l] : l \in PredSet \cup {""}}

StartTriggers == {[start |-> p, includes |-> <<>>] : p \in PredSet}
IncludeTriggers ==
    {[start |-> "", includes |-> [k \in 1..Len(s) |-> [predicate |-> s[k]]]] :
        s \in UNION {[1..n -> PredSet] : n \in 1..MaxIncludes}}

Window(n, l) == [name |-> n, has_label |-> l.has_label, label |-> l.label]

Config(t, lr, l1, l2, ord) ==
    [trigger |-> t,
     windows |-> <<Window(RootName, lr), Window("w1", l1), Window("w2", l2)>>,
     order |-> ord]

TreeOrders == {<<"w1", "w2">>, <<"w2", "w1">>}

NoConfig == Config([start |-> "", includes |-> <<>>], NoLabel, NoLabel, NoLabel, <<>>)

\* Configurations that vary the trigger.
TriggerConfigs ==
    {Config(t, NoLabel, NoLabel, NoLabel, <<"w1", "w2">>) :
        t \in StartTriggers \cup IncludeTriggers}

\* Configurations that vary the label entries and the tree order.
LabelConfigs ==
    {Config([start |-> "a", includes |-> <<>>], lr, l1, l2, ord) :
        lr \in {NoLabel, [has_label |-> TRUE, label |-> "a"]},
        l1 \in LabelEntries, l2 \in LabelEntries \ {[has_label |-> TRUE, label |-> ""]},
        ord \in TreeOrders}

\* What query_subtree does with the anchors: the anchor positions it drops
\* and the (position, window, predicate) triples whose summary field is 1.
EngineOf(n) ==
    {[drop |-> d, ones |-> o] :
        d \in {{}, {1}}, o \in SUBSET ((1..n) \X NonRootNames \X PredSet)}
PlainEngine == [drop |-> {}, ones |-> {}]

VARIABLES data, cfg_file, gen_ok, engine, verbose,
          ESD_data, cfg, tree, predicate_cols, valid_trigger_exprs,
          anchor_to_subtree_root_by_subtree_anchor,
          anchor_to_subtree_root_by_subtree_anchor_shape,
          i, log, result, pc, err

inputs == <<data, cfg_file, gen_ok, engine, verbose>>
vars == <<data, cfg_file, gen_ok, engine, verbose,
          ESD_data, cfg, tree, predicate_cols, valid_trigger_exprs,
          anchor_to_subtree_root_by_subtree_anchor,
          anchor_to_subtree_root_by_subtree_anchor_shape,
          i, log, result, pc, err>>

\* A raised error: its class, its message, the stage its message names and
\* the class of the error it was raised from.
NoError == [kind |-> "none", msg |-> "", context |-> "", cause |-> ""]
Error(k, m, x, c) == [kind |-> k, msg |-> m, context |-> x, cause |-> c]

Locals ==
    /\ ESD_data = EmptyTable
    /\ cfg = NoConfig
    /\ tree = <<>>
    /\ predicate_cols = <<>>
    /\ valid_trigger_exprs = <<>>
    /\ anchor_to_subtree_root_by_subtree_anchor = EmptyTable
    /\ anchor_to_subtree_root_by_subtree_anchor_shape = 0
    /\ i = 1
    /\ log = <<>>
    /\ result = EmptyTable
    /\ pc = "match"
    /\ err = NoError

Environment ==
    /\ cfg_file \in {[ok |-> FALSE, cfg |-> NoConfig],
                     [ok |-> TRUE, cfg |-> Config([start |-> "a", includes |-> <<>>],
                                                  NoLabel, NoLabel, NoLabel, <<"w1", "w2">>)]}
    /\ gen_ok \in BOOLEAN
    /\ engine = PlainEngine
    /\ verbose \in BOOLEAN

\* Small in-memory tables of every schema, with a configuration that loads
\* or fails to load and a predicate generation that succeeds or fails.
InitFrames ==
    /\ data \in {[kind |-> "frame", table |-> Frame(s, es)] :
                    s \in OddSchemas \cup GoodSchemas, es \in EventSeqs(1)}
    /\ Environment
    /\ Locals

\* A dataset directory: its joined events, in any order.
InitPath ==
    /\ data \in {[kind |-> "path", table |-> Frame(s, es)] :
                    s \in GoodSchemas,
                    es \in UNION {[1..k -> PathEvents] : k \in 0..MaxRows}}
    /\ cfg_file = [ok |-> TRUE, cfg |-> Config([start |-> "a", includes |-> <<>>],
                                               NoLabel, NoLabel, NoLabel, <<"w1", "w2">>)]
    /\ gen_ok = TRUE
    /\ engine = PlainEngine
    /\ verbose = FALSE
    /\ Locals

\* Every in-memory event table in the order the event table is required to
\* have (subject_id, timestamp, event_type), with every trigger.
InitSelect ==
    /\ data \in {[kind |-> "frame", table |-> Frame(s, es)] :
                    s \in GoodSchemas, es \in SortedEventSeqs(MaxRows)}
    /\ cfg_file \in {[ok |-> TRUE, cfg |-> c] : c \in TriggerConfigs}
    /\ gen_ok = TRUE
    /\ engine = PlainEngine
    /\ verbose = TRUE
    /\ Locals

\* Every in-memory event table in any order, with a start trigger and with
\* an include list.
InitUnsorted ==
    /\ data \in {[kind |-> "frame", table |-> Frame(s, es)] :
                    s \in GoodSchemas, es \in EventSeqs(MaxRows)}
    /\ cfg_file \in {[ok |-> TRUE, cfg |-> Config(t, NoLabel, NoLabel, NoLabel, <<"w1", "w2">>)] :
                        t \in {[start |-> "b", includes |-> <<>>],
                               [start |-> "", includes |-> <<[predicate |-> "a"],
                                                             [predicate |-> "b"]>>]}}
    /\ gen_ok = TRUE
    /\ engine = PlainEngine
    /\ verbose = TRUE
    /\ Locals

\* A few event tables on which the start trigger "a" keeps every row, every
\* label entry, both tree orders, every engine outcome.
LabelEvents ==
    {<<<<1, 1, 3>>>>, <<<<1, 1, 3>>, <<1, 2, 1>>>>, <<<<1, 2, 1>>, <<2, 1, 3>>>>}

InitLabels ==
    /\ \E es \in LabelEvents :
          /\ data = [kind |-> "frame", table |-> Frame(CHOOSE s \in GoodSchemas : TRUE, es)]
          /\ engine \in EngineOf(Len(es))
    /\ cfg_file \in {[ok |-> TRUE, cfg |-> c] : c \in LabelConfigs}
    /\ gen_ok = TRUE
    /\ verbose = FALSE
    /\ Locals

Init == InitSelect \/ InitUnsorted \/ InitFrames \/ InitPath
InitAssemble == InitLabels \/ InitFrames \/ InitPath

\* ------------------------------------------------------- pure steps
HasColumn(t, c) == c \in Range(t.columns)

\* The rows of `data` as the function uses them (lines 29-45).
LoadData(d) ==
    IF d.kind = "path"
    THEN [d.table EXCEPT !.rows = SortRows(d.table.rows)]
    ELSE d.table

AllParse(t) == \A k \in 1..Len(t.rows) : Parses(t.rows[k]["timestamp"])

ParsedTimestamps(t) ==
    [t EXCEPT !.ts_dtype = "datetime",
              !.rows = [k \in 1..Len(t.rows) |->
                          [t.rows[k] EXCEPT !["timestamp"] = Strptime(@)]]]

\* generate_predicate_columns: one 0/1 column is_<p> per predicate, appended.
Bit(n, k) == (n \div (2 ^ (k - 1))) % 2
WithPredicateColumns(t) ==
    [t EXCEPT !.columns = @ \o [k \in 1..Len(Preds) |-> PredicateColumn(Preds[k])],
              !.rows = [j \in 1..Len(t.rows) |->
                          [c \in Range(t.columns) \cup {PredicateColumn(p) : p \in PredSet} |->
                              IF c \in Range(t.columns) THEN t.rows[j][c]
                              ELSE Bit(t.rows[j]["event_type"],
                                       CHOOSE k \in 1..Len(Preds) : c = PredicateColumn(Preds[k]))]]]

\* build_tree_from_config, then preorder_iter: the root, then the others.
PreOrder(c) == <<RootName>> \o c.order

\* Mutant of EqualsOne: the comparison is with 0.
EqualsZero(t, c) == [k \in 1..Len(t.rows) |-> t.rows[k][c] = 0]

\* ESD_data[col] == 1
EqualsOne(t, c) == [k \in 1..Len(t.rows) |-> t.rows[k][c] = 1]

TriggerExprs(c, t) ==
    IF c.trigger.includes # <<>>
    THEN [k \in 1..Len(c.trigger.includes) |->
             EqualsOne(t, PredicateColumn(c.trigger.includes[k].predicate))]
    ELSE <<EqualsOne(t, PredicateColumn(c.trigger.start))>>

Select(t, cols) ==
    [t EXCEPT !.columns = cols,
              !.rows = [k \in 1..Len(t.rows) |-> [c \in Range(cols) |-> t.rows[k][c]]]]

\* Mutant of ZeroedAnchors: the columns are selected and not zeroed.
SelectedAnchors(t, pcols) == Select(t, <<"subject_id", "timestamp">> \o pcols)

\* select(subject_id, timestamp, predicate columns), then every predicate
\* column replaced by the literal 0 (lines 118-124).
ZeroedAnchors(t, pcols) ==
    LET sel == Select(t, <<"subject_id", "timestamp">> \o pcols)
    IN [sel EXCEPT !.rows = [k \in 1..Len(sel.rows) |->
                                [c \in Range(sel.columns) |->
                                    IF c \in Range(pcols) THEN 0 ELSE sel.rows[k][c]]]]

UniqueSubjects(rows) == Cardinality({rows[k]["subject_id"] : k \in 1..Len(rows)})

\* query_subtree: for every anchor it keeps, the anchor's own columns, and a
\* timestamp and a summary struct per non-root window.
NodeColumns(n) == <<TimestampColumn(n), SummaryColumn(n)>>
RECURSIVE EngineColumns(_)
EngineColumns(nodes) ==
    IF nodes = <<>> THEN <<>> ELSE NodeColumns(Head(nodes)) \o EngineColumns(Tail(nodes))

Summary(e, k, n) ==
    [f \in {PredicateColumn(p) : p \in PredSet} |->
        IF \E p \in PredSet : f = PredicateColumn(p) /\ <<k, n, p>> \in e.ones THEN 1 ELSE 0]

Depth(tr, n) == CHOOSE k \in 1..Len(tr) : tr[k] = n

EngineResult(tr, anchors, e) ==
    LET cols == anchors.columns \o EngineColumns(Tail(tr))
        row(k) == [c \in Range(cols) |->
                      IF c \in Range(anchors.columns) THEN anchors.rows[k][c]
                      ELSE LET n == CHOOSE m \in Range(Tail(tr)) :
                                        c \in Range(NodeColumns(m))
                           IN IF c = TimestampColumn(n)
                              THEN anchors.rows[k]["timestamp"] + Depth(tr, n) - 1
                              ELSE Summary(e, k, n)]
        all == [k \in 1..Len(anchors.rows) |-> row(k)]
    IN [columns |-> cols, ts_dtype |-> anchors.ts_dtype,
        rows |-> FilterFrom(all, [k \in 1..Len(all) |-> k \notin e.drop], 1)]

\* Mutant of OutputColumns: each node's summary follows its timestamp.
InterleavedColumns(tr) == <<"subject_id", "timestamp">> \o EngineColumns(Tail(tr))

\* The columns of the returned table before the label (lines 140-147).
OutputColumns(tr) ==
    <<"subject_id", "timestamp">>
        \o [k \in 1..Len(tr) - 1 |-> TimestampColumn(tr[k + 1])]
        \o [k \in 1..Len(tr) - 1 |-> SummaryColumn(tr[k + 1])]

Rename(t, old, new) ==
    [t EXCEPT !.columns = [k \in 1..Len(t.columns) |->
                              IF t.columns[k] = old THEN new ELSE t.columns[k]],
              !.rows = [k \in 1..Len(t.rows) |->
                          [c \in (Range(t.columns) \ {old}) \cup {new} |->
                              IF c = new THEN t.rows[k][old] ELSE t.rows[k][c]]]]

Assembled(t, tr) == Rename(Select(t, OutputColumns(tr)), "timestamp", TimestampColumn(tr[1]))

\* The first window, in configuration order, with a truthy label entry;
\* "" when there is none (lines 149-154).
RECURSIVE LabelWindow(_)
LabelWindow(ws) ==
    IF ws = <<>> THEN ""
    ELSE IF Head(ws).has_label /\ Head(ws).label # "" THEN Head(ws).name
    ELSE LabelWindow(Tail(ws))

LabelOf(c, w) == (CHOOSE x \in Range(c.windows) : x.name = w).label

\* Mutant of WithLabel: the field of the first predicate is taken.
WithFirstField(t, w, l) ==
    [t EXCEPT !.columns = Append(@, "label"),
              !.rows = [k \in 1..Len(t.rows) |->
                          [c \in Range(t.columns) \cup {"label"} |->
                              IF c = "label"
                              THEN t.rows[k][SummaryColumn(w)][PredicateColumn(Preds[1])]
                              ELSE t.rows[k][c]]]]

\* result.with_columns(col(W/window_summary).struct.field(is_<label>).alias("label"))
WithLabel(t, w, l) ==
    [t EXCEPT !.columns = Append(@, "label"),
              !.rows = [k \in 1..Len(t.rows) |->
                          [c \in Range(t.columns) \cup {"label"} |->
                              IF c = "label"
                              THEN t.rows[k][SummaryColumn(w)][PredicateColumn(l)]
                              ELSE t.rows[k][c]]]]

\* ------------------------------------------------------- actions
Raise(e) ==
    /\ pc' = "raised"
    /\ err' = e

\* Lines 29-45: the event source becomes ESD_data.
MatchData ==
    /\ pc = "match"
    /\ ESD_data' = LoadData(data)
    /\ pc' = "strptime"
    /\ UNCHANGED <<inputs, cfg, tree, predicate_cols, valid_trigger_exprs,
                   anchor_to_subtree_root_by_subtree_anchor,
                   anchor_to_subtree_root_by_subtree_anchor_shape, i, log, result, err>>

\* Lines 47-52: a timestamp column that is not a Datetime is parsed as text.
ParseTimestamp ==
    /\ pc = "strptime"
    /\ IF ~HasColumn(ESD_data, "timestamp")
       THEN /\ Raise(Error("ColumnNotFoundError", "timestamp", "", ""))
            /\ UNCHANGED ESD_data
       ELSE IF ESD_data.ts_dtype = "datetime"
       THEN /\ pc' = "check"
            /\ UNCHANGED <<ESD_data, err>>
       ELSE IF ESD_data.ts_dtype # "str"
       THEN /\ Raise(Error("SchemaError", "timestamp", "", ""))
            /\ UNCHANGED ESD_data
       ELSE IF ~AllParse(ESD_data)
       THEN /\ Raise(Error("ComputeError", "timestamp", "", ""))
            /\ UNCHANGED ESD_data
       ELSE /\ ESD_data' = ParsedTimestamps(ESD_data)
            /\ pc' = "check"
            /\ UNCHANGED err
    /\ UNCHANGED <<inputs, cfg, tree, predicate_cols, valid_trigger_exprs,
                   anchor_to_subtree_root_by_subtree_anchor,
                   anchor_to_subtree_root_by_subtree_anchor_shape, i, log, result>>

\* Lines 54-59: the input checks.
CheckInput ==
    /\ pc = "check"
    /\ IF Len(ESD_data.rows) = 0
       THEN Raise(Error("ValueError", "Empty ESD!", "", ""))
       ELSE IF ~HasColumn(ESD_data, "timestamp")
       THEN Raise(Error("ValueError", "ESD does not have timestamp column!", "", ""))
       ELSE IF ~HasColumn(ESD_data, "subject_id")
       THEN Raise(Error("ValueError", "ESD does not have subject_id column!", "", ""))
       ELSE /\ pc' = "load_config"
            /\ UNCHANGED err
    /\ UNCHANGED <<inputs, ESD_data, cfg, tree, predicate_cols, valid_trigger_exprs,
                   anchor_to_subtree_root_by_subtree_anchor,
                   anchor_to_subtree_root_by_subtree_anchor_shape, i, log, result>>

\* Lines 61-63: load_config, called outside any try.
LoadConfig ==
    /\ pc = "load_config"
    /\ IF cfg_file.ok
       THEN /\ cfg' = cfg_file.cfg
            /\ pc' = "generate"
            /\ UNCHANGED err
       ELSE /\ Raise(Error("ConfigFileError", "", "", ""))
            /\ UNCHANGED cfg
    /\ UNCHANGED <<inputs, ESD_data, tree, predicate_cols, valid_trigger_exprs,
                   anchor_to_subtree_root_by_subtree_anchor,
                   anchor_to_subtree_root_by_subtree_anchor_shape, i, log, result>>

\* Lines 65-73: generate_predicate_columns, inside try/except ... raise from.
GeneratePredicates ==
    /\ pc = "generate"
    /\ IF gen_ok
       THEN /\ ESD_data' = WithPredicateColumns(ESD_data)
            /\ pc' = "build_tree"
            /\ UNCHANGED err
       ELSE /\ Raise(Error("ValueError",
                           "Error generating predicate columns from configuration file!",
                           "generate_predicate_columns", "PredicateError"))
            /\ UNCHANGED ESD_data
    /\ UNCHANGED <<inputs, cfg, tree, predicate_cols, valid_trigger_exprs,
                   anchor_to_subtree_root_by_subtree_anchor,
                   anchor_to_subtree_root_by_subtree_anchor_shape, i, log, result>>

\* Lines 75-80.
BuildTree ==
    /\ pc = "build_tree"
    /\ tree' = PreOrder(cfg)
    /\ pc' = "trigger"
    /\ UNCHANGED <<inputs, ESD_data, cfg, predicate_cols, valid_trigger_exprs,
                   anchor_to_subtree_root_by_subtree_anchor,
                   anchor_to_subtree_root_by_subtree_anchor_shape, i, log, result, err>>

\* Lines 82-95: the predicate columns, the trigger masks, the clone.
PrepareTrigger ==
    /\ pc = "trigger"
    /\ predicate_cols' = SelectSeq(ESD_data.columns, StartsWithIs)
    /\ valid_trigger_exprs' = TriggerExprs(cfg, ESD_data)
    /\ anchor_to_subtree_root_by_subtree_anchor' = ESD_data
    /\ anchor_to_subtree_root_by_subtree_anchor_shape' = Len(ESD_data.rows)
    /\ i' = 1
    /\ pc' = "loop"
    /\ UNCHANGED <<inputs, ESD_data, cfg, tree, log, result, err>>

\* Lines 96-116: one iteration of the loop over the trigger conditions.
TriggerCondition ==
    /\ pc = "loop"
    /\ i <= Len(valid_trigger_exprs)
    /\ LET condition == valid_trigger_exprs[i]
           rows == anchor_to_subtree_root_by_subtree_anchor.rows
       IN IF ~FilterShapeOk(rows, condition)
          THEN /\ Raise(Error("ShapeError", "filter", "", ""))
               /\ UNCHANGED <<anchor_to_subtree_root_by_subtree_anchor,
                              anchor_to_subtree_root_by_subtree_anchor_shape, i, log>>
          ELSE LET dropped == FilterRows(rows, Not(condition))
                   kept == FilterRows(rows, condition)
               IN /\ anchor_to_subtree_root_by_subtree_anchor' =
                        [anchor_to_subtree_root_by_subtree_anchor EXCEPT !.rows = kept]
                  /\ IF Len(kept) < anchor_to_subtree_root_by_subtree_anchor_shape
                     THEN /\ log' = IF verbose
                                    THEN Append(log, [subjects |-> UniqueSubjects(dropped),
                                                      rows |-> Len(dropped),
                                                      condition |-> i])
                                    ELSE log
                          /\ anchor_to_subtree_root_by_subtree_anchor_shape' = Len(kept)
                     ELSE UNCHANGED <<log, anchor_to_subtree_root_by_subtree_anchor_shape>>
                  /\ i' = i + 1
                  /\ UNCHANGED <<pc, err>>
    /\ UNCHANGED <<inputs, ESD_data, cfg, tree, predicate_cols, valid_trigger_exprs, result>>

\* Lines 118-124: the initial AnchorSet.
ZeroAccumulators ==
    /\ pc = "loop"
    /\ i > Len(valid_trigger_exprs)
    /\ anchor_to_subtree_root_by_subtree_anchor' =
          ZeroedAnchors(anchor_to_subtree_root_by_subtree_anchor, predicate_cols)
    /\ pc' = "query"
    /\ UNCHANGED <<inputs, ESD_data, cfg, tree, predicate_cols, valid_trigger_exprs,
                   anchor_to_subtree_root_by_subtree_anchor_shape, i, log, result, err>>

\* Lines 126-138: query_subtree(tree, anchors, predicates_df=ESD_data).
QuerySubtree ==
    /\ pc = "query"
    /\ result' = EngineResult(tree, anchor_to_subtree_root_by_subtree_anchor, engine)
    /\ pc' = "assemble"
    /\ UNCHANGED <<inputs, ESD_data, cfg, tree, predicate_cols, valid_trigger_exprs,
                   anchor_to_subtree_root_by_subtree_anchor,
                   anchor_to_subtree_root_by_subtree_anchor_shape, i, log, err>>

\* Lines 140-147: select and rename.
Assemble ==
    /\ pc = "assemble"
    /\ IF \A k \in 1..Len(OutputColumns(tree)) : HasColumn(result, OutputColumns(tree)[k])
       THEN /\ result' = Assembled(result, tree)
            /\ pc' = "label"
            /\ UNCHANGED err
       ELSE /\ Raise(Error("ColumnNotFoundError", "select", "", ""))
            /\ UNCHANGED result
    /\ UNCHANGED <<inputs, ESD_data, cfg, tree, predicate_cols, valid_trigger_exprs,
                   anchor_to_subtree_root_by_subtree_anchor,
                   anchor_to_subtree_root_by_subtree_anchor_shape, i, log>>

\* Lines 149-163: the label column, then return.
ExtractLabel ==
    /\ pc = "label"
    /\ LET label_window == LabelWindow(cfg.windows)
       IN IF label_window = ""
          THEN /\ pc' = "returned"
               /\ UNCHANGED <<result, err>>
          ELSE IF ~HasColumn(result, SummaryColumn(label_window))
          THEN /\ Raise(Error("ColumnNotFoundError", SummaryColumn(label_window), "", ""))
               /\ UNCHANGED result
          ELSE /\ result' = WithLabel(result, label_window, LabelOf(cfg, label_window))
               /\ pc' = "returned"
               /\ UNCHANGED err
    /\ UNCHANGED <<inputs, ESD_data, cfg, tree, predicate_cols, valid_trigger_exprs,
                   anchor_to_subtree_root_by_subtree_anchor,
                   anchor_to_subtree_root_by_subtree_anchor_shape, i, log>>

Next ==
    \/ MatchData
    \/ ParseTimestamp
    \/ CheckInput
    \/ LoadConfig
    \/ GeneratePredicates
    \/ BuildTree
    \/ PrepareTrigger
    \/ TriggerCondition
    \/ ZeroAccumulators
    \/ QuerySubtree
    \/ Assemble
    \/ ExtractLabel

Spec == Init /\ [][Next]_vars
SpecAssemble == InitAssemble /\ [][Next]_vars

\* ------------------------------------------------------- properties
Anchors == anchor_to_subtree_root_by_subtree_anchor
Called == pc \in {"query", "assemble", "label", "returned"}
Finished == pc \in {"returned", "raised"}

\* The predicates the trigger of configuration c names.
TriggerPredicates(c) ==
    IF c.trigger.includes # <<>>
    THEN {c.trigger.includes[k].predicate : k \in 1..Len(c.trigger.includes)}
    ELSE {c.trigger.start}

Qualifies(r, c) == \A p \in TriggerPredicates(c) : r["is_" \o p] = 1
Key(r) == <<r["subject_id"], r["timestamp"]>>
KeysOf(rows) == [k \in 1..Len(rows) |-> Key(rows[k])]
RECURSIVE QualifyingKeys(_, _)
QualifyingKeys(rows, c) ==
    IF rows = <<>> THEN <<>>
    ELSE (IF Qualifies(Head(rows), c) THEN <<Key(Head(rows))>> ELSE <<>>)
             \o QualifyingKeys(Tail(rows), c)

\* The windows of c with a truthy label entry.
Labelled(c) ==
    {w \in Range(c.windows) : w.has_label /\ w.label # ""}

\* C1: an in-memory event table with zero rows ends in the ValueError
\* "Empty ESD!", raised before the configuration is loaded, whatever the
\* columns and the timestamp dtype of the table.
C1_EmptyTableRaisesEmptyESD ==
    (data.kind = "frame" /\ Len(data.table.rows) = 0 /\ pc \notin {"match", "strptime", "check"})
        => /\ pc = "raised"
           /\ err = Error("ValueError", "Empty ESD!", "", "")
           /\ cfg = NoConfig
           /\ tree = <<>>

\* C2: every row of the AnchorSet handed to query_subtree has the subject
\* and the timestamp of an event-table row on which every trigger predicate
\* column is 1.
C2_NoInventedAnchors ==
    Called =>
        \A k \in 1..Len(Anchors.rows) :
            \E j \in 1..Len(ESD_data.rows) :
                /\ Key(ESD_data.rows[j]) = Key(Anchors.rows[k])
                /\ Qualifies(ESD_data.rows[j], cfg)

C2_Witness ==
    /\ pc = "query"
    /\ Len(cfg.trigger.includes) = 2
    /\ Len(Anchors.rows) >= 1
    /\ Len(Anchors.rows) < Len(ESD_data.rows)

\* C3: once the configuration, the predicates and the tree are there, the
\* trigger selection ends with one anchor per event-table row on which all
\* trigger conditions hold, in event-table order, for a start predicate and
\* for an include list of any length.
C3_OneAnchorPerQualifyingEvent ==
    /\ (pc = "raised" => err.kind # "ShapeError")
    /\ (Called => KeysOf(Anchors.rows) = QualifyingKeys(ESD_data.rows, cfg))

\* C4: query_subtree is never called with an empty AnchorSet: a trigger
\* that keeps no row ends in an error.
C4_EmptyAnchorsRaise ==
    Called => Len(Anchors.rows) > 0

\* C5 as stated: with exactly one labelled window W of label p, whichever
\* window it is, the query returns a table whose label column is the field
\* is_p of W's summary on every row.
C5_LabelOfAnyWindow ==
    (Cardinality(Labelled(cfg)) = 1 /\ Finished) =>
        LET w == CHOOSE x \in Labelled(cfg) : TRUE
        IN /\ err # Error("ColumnNotFoundError", w.name \o "/window_summary", "", "")
           /\ pc = "returned" =>
                 /\ HasColumn(result, "label")
                 /\ \A k \in 1..Len(result.rows) :
                       result.rows[k]["label"] =
                           result.rows[k][w.name \o "/window_summary"]["is_" \o w.label]

\* C5 amended: with exactly one labelled window W of label p, W not the
\* root, the returned table has a label column that is the field is_p of
\* W's summary on every row; with no labelled window the returned table is
\* the assembled table, without a label column.
C5_LabelOfNonRootWindow ==
    pc = "returned" =>
        /\ \A w \in Labelled(cfg) :
              (Labelled(cfg) = {w} /\ w.name # RootName) =>
                  /\ HasColumn(result, "label")
                  /\ \A k \in 1..Len(result.rows) :
                        result.rows[k]["label"] =
                            result.rows[k][w.name \o "/window_summary"]["is_" \o w.label]
        /\ Labelled(cfg) = {} =>
              /\ ~HasColumn(result, "label")
              /\ result = Assembled(EngineResult(tree, Anchors, engine), tree)

C5_Witness ==
    /\ pc = "returned"
    /\ \E w \in Labelled(cfg) : Labelled(cfg) = {w} /\ w.name = "w2" /\ w.label = "b"
    /\ Len(result.rows) = 2
    /\ result.rows[1]["label"] # result.rows[2]["label"]
    /\ result.rows[1]["w2/window_summary"]["is_a"] # result.rows[1]["label"]

\* C6: the assembled table has the columns subject_id, <root>/timestamp,
\* <node>/timestamp for the non-root nodes in pre-order, then
\* <node>/window_summary for them in pre-order, and nothing else; its rows
\* are the rows query_subtree returned, in the same order.
C6_AssembledTable ==
    pc = "label" =>
        LET n == Len(tree) - 1
            eng == EngineResult(tree, Anchors, engine)
        IN /\ Len(result.columns) = 2 + 2 * n
           /\ result.columns[1] = "subject_id"
           /\ result.columns[2] = tree[1] \o "/timestamp"
           /\ \A k \in 1..n :
                 /\ result.columns[2 + k] = tree[k + 1] \o "/timestamp"
                 /\ result.columns[2 + n + k] = tree[k + 1] \o "/window_summary"
           /\ Len(result.rows) = Len(eng.rows)
           /\ \A k \in 1..Len(result.rows) :
                 /\ DOMAIN result.rows[k] = Range(result.columns)
                 /\ result.rows[k]["subject_id"] = eng.rows[k]["subject_id"]
                 /\ result.rows[k][tree[1] \o "/timestamp"] = eng.rows[k]["timestamp"]
                 /\ \A c \in Range(result.columns) \ {"subject_id", tree[1] \o "/timestamp"} :
                       result.rows[k][c] = eng.rows[k][c]

C6_Witness ==
    /\ pc = "label"
    /\ tree = <<"trigger", "w2", "w1">>
    /\ Len(Anchors.rows) = 2
    /\ Len(result.rows) = 1
    /\ result.rows[1]["w1/window_summary"] # result.rows[1]["w2/window_summary"]

\* C7: an in-memory event table without a timestamp or without a subject_id
\* column ends in the ValueError of the required-column checks, empty or
\* not.
C7_MissingColumnRaisesValueError ==
    (/\ data.kind = "frame"
     /\ ~(HasColumn(data.table, "timestamp") /\ HasColumn(data.table, "subject_id"))
     /\ pc \notin {"match", "strptime", "check"})
        => /\ pc = "raised"
           /\ err.kind = "ValueError"
           /\ err.msg \in {"ESD does not have timestamp column!",
                           "ESD does not have subject_id column!"}

\* C8: an error of load_config or of generate_predicate_columns never
\* leaves query_task as it is: what is raised names the failing stage and
\* has the collaborator's error as its cause.
C8_CollaboratorErrorsWrapped ==
    pc = "raised" =>
        /\ err.kind \notin {"ConfigFileError", "PredicateError"}
        /\ (err.cause \in {"ConfigFileError", "PredicateError"} => err.context # "")

\* C9: with more than one labelled window the query does not return.
C9_SeveralLabelsRejected ==
    Cardinality(Labelled(cfg)) > 1 => pc # "returned"

\* C10: the AnchorSet handed to query_subtree has the columns subject_id,
\* timestamp and every is_ column of the event table, every predicate cell
\* is 0, and the event table passed as predicates_df still has the
\* predicate values that were generated.
C10_ZeroedAnchorSchema ==
    Called =>
        LET pcols == {c \in Range(ESD_data.columns) : StartsWithIs(c)}
            loaded == LoadData(data)
            parsed == IF loaded.ts_dtype = "str" THEN ParsedTimestamps(loaded) ELSE loaded
        IN /\ Len(Anchors.columns) = 2 + Cardinality(pcols)
           /\ Anchors.columns[1] = "subject_id"
           /\ Anchors.columns[2] = "timestamp"
           /\ {Anchors.columns[k] : k \in 3..Len(Anchors.columns)} = pcols
           /\ pcols = {"is_" \o p : p \in PredSet}
           /\ \A k \in 1..Len(Anchors.rows) :
                 /\ DOMAIN Anchors.rows[k] = Range(Anchors.columns)
                 /\ \A c \in pcols : Anchors.rows[k][c] = 0
           /\ ESD_data = WithPredicateColumns(parsed)

C10_Witness ==
    /\ pc = "query"
    /\ log # <<>>
    /\ Len(Anchors.rows) >= 1
    /\ \E k \in 1..Len(ESD_data.rows) :
          /\ Qualifies(ESD_data.rows[k], cfg)
          /\ Key(ESD_data.rows[k]) = Key(Anchors.rows[1])

====
